---- MODULE Spec2Model ----
(***************************************************************************)
(* A model of the Vertex AI / OpenAI authentication proxy (main.go).       *)
(*                                                                         *)
(* The process: main() acquires credentials synchronously                  *)
(* (refreshCredentials), registers the routes and listens.  Every          *)
(* successful refreshCredentials starts a goroutine that sleeps until       *)
(* five minutes before the token's expiry and then calls                   *)
(* refreshCredentials again.  Request handlers run concurrently with it.   *)
(*                                                                         *)
(* The model follows the version of main.go that also serves the model     *)
(* catalog; refreshCredentials, handleChatCompletions and main are the     *)
(* same in both versions.  Library calls are modelled by their documented  *)
(* contracts: an oauth2 TokenSource obtained from                          *)
(* google.FindDefaultCredentials reuses its token while it is valid and    *)
(* fetches a new one from the identity provider when it is not; a gin      *)
(* :parameter matches exactly one path segment.                            *)
(*                                                                         *)
(* Server.credential is written by the refresh goroutine and read by the   *)
(* handlers without synchronisation.  The cell is one pointer: a read      *)
(* yields the pointer stored before the write or the one stored by it,     *)
(* which is what the interleaving of ChatBegin and AcquireToken gives.     *)
(*                                                                         *)
(* Time is counted in minutes.  Strings that are taken apart by the        *)
(* program (URL paths, model identifiers) are sequences of atoms, "/"      *)
(* being the separator atom.                                               *)
(***************************************************************************)
EXTENDS Integers, Sequences, FiniteSets, TLC

\* ---------------------------------------------------------------- bounds

\* The clock stops advancing here.
MaxTime == 1
\* Invocations of refreshCredentials: the initial one and the goroutines.
MaxTasks == 3
\* Inbound HTTP requests over the life of the process.
MaxReqs == 1
\* Lifetimes (minutes) the identity provider grants: one below the safety
\* margin, one above it.
ShortLife == 1
LongLife == 6

\* ------------------------------------------------------ program constants

\* time.Until(token.Expiry.Add(-5 * time.Minute))
SafetyMargin == 5

Lifetimes == {ShortLife, LongLife}

\* ------------------------------------------------------------------ state

VARIABLES
    now,         \* the wall clock
    mainPc,      \* main(): "init", "routes", "listen", "serving", "exited"
    tasks,       \* the invocations of refreshCredentials, in order of creation
    credential,  \* Server.credential: 0 is nil, else the index of a heap object
    heap,        \* the *google.Credentials objects FindDefaultCredentials made
    issued,      \* every token the identity provider issued, by token id
    routes,      \* the routes registered on Server.router
    portBound,   \* whether router.Run has bound :8080
    reqs         \* the inbound requests

vars == <<now, mainPc, tasks, credential, heap, issued, routes, portBound, reqs>>

\* The zero oauth2.Token.
NoToken == [id |-> 0, exp |-> 0]

\* The process is running: log.Fatalf has not ended it.
Alive == mainPc # "exited"

\* ------------------------------------------- golang.org/x/oauth2 contract

\* (mutant) a static token source: a token, once held, is handed out
\* whatever its expiry.
TokenValidForever(tok, t) == tok.id # 0

\* oauth2.Token.Valid: a token is present and not expired.  (The library's
\* ten-second expiryDelta is below the clock's resolution.)
TokenValid(tok, t) == tok.id # 0 /\ t < tok.exp

\* The token the identity provider issues at time t with lifetime life; its
\* id is its index in issued.
NewToken(iss, t, life) == [id |-> Len(iss) + 1, exp |-> t + life]

\* The provider's record of that token: its expiry and its time of issue.
Issue(tok, t) == [exp |-> tok.exp, at |-> t]

\* A *google.Credentials as FindDefaultCredentials returns it: a reusing
\* TokenSource that holds no token yet.  instAt and instTok record when the
\* object was stored in Server.credential (-1: never) and the token it held
\* then.
NewCreds == [tok |-> NoToken, instAt |-> -1, instTok |-> 0]

\* (mutant) the installed credentials object kept and used again.
FoundCredsCached(h, current) == IF current # 0 THEN current ELSE Len(h) + 1

\* The object a call of FindDefaultCredentials returns: a new one each time,
\* at the next free index of the heap h.
FoundCreds(h, current) == Len(h) + 1

\* ------------------------------------------------------ refreshCredentials

\* A goroutine started by refreshCredentials, about to sleep until the
\* safety margin before the token's expiry.
SleepingTask(exp) ==
    [pc |-> "sleep", bg |-> TRUE, deadline |-> exp - SafetyMargin,
     creds |-> 0, exp |-> 0, seen |-> 0, err |-> FALSE]

\* The call main() makes before serving.
InitialTask ==
    [pc |-> "find", bg |-> FALSE, deadline |-> 0,
     creds |-> 0, exp |-> 0, seen |-> 0, err |-> FALSE]

\* (mutant) the assignment made before the token's error is looked at.
RefreshInstallEarly(old, creds, tokenErr) == creds

\* (mutant) the cell assigned only while it is nil.
RefreshInstallOnce(old, creds, tokenErr) ==
    IF tokenErr \/ old # 0 THEN old ELSE creds

\* (mutant) a failed refresh clears the cell.
RefreshInstallOrClear(old, creds, tokenErr) == IF tokenErr THEN 0 ELSE creds

\* What Server.credential holds after creds.TokenSource.Token() returned:
\* the assignment comes after both error returns.
RefreshInstall(old, creds, tokenErr) == IF tokenErr THEN old ELSE creds

\* (mutant) the refresh scheduled twice, by refreshCredentials and again by
\* its caller.
SpawnedTwice(exp) == <<SleepingTask(exp), SleepingTask(exp)>>

\* (mutant) refreshCredentials without its go statement.
SpawnedNone(exp) == <<>>

\* The goroutines a successful refreshCredentials starts: one.
Spawned(exp) == <<SleepingTask(exp)>>

\* (mutant) the goroutine written as a loop around sleep and refresh, on top
\* of the goroutine each successful refresh starts.
AfterRefreshLoop(t, err) ==
    [t EXCEPT !.pc = IF t.bg THEN "sleep" ELSE "done", !.err = err]

\* refreshCredentials has returned err to its caller.  The goroutine logs a
\* failure and ends; main() reads the result in MainAfterInit.
AfterRefresh(t, err) == [t EXCEPT !.pc = "done", !.err = err]

Armed(i) == i \in 1..Len(tasks) /\ tasks[i].pc = "sleep"

\* time.Sleep returns once the deadline has passed (at once when it already
\* has); the goroutine then calls refreshCredentials.
TimerFire(i) ==
    /\ Alive
    /\ Armed(i)
    /\ now >= tasks[i].deadline
    /\ tasks' = [tasks EXCEPT ![i].pc = "find", ![i].seen = credential]
    /\ UNCHANGED <<now, mainPc, credential, heap, issued, routes, portBound, reqs>>

\* google.FindDefaultCredentials: a new credentials object, or an error,
\* which refreshCredentials returns.
FindCredentials(i) ==
    /\ Alive
    /\ i \in 1..Len(tasks)
    /\ tasks[i].pc = "find"
    /\ \/ LET c == FoundCreds(heap, credential)
          IN  /\ heap' = IF c > Len(heap) THEN Append(heap, NewCreds) ELSE heap
              /\ tasks' = [tasks EXCEPT ![i].pc = "token", ![i].creds = c]
       \/ /\ heap' = heap
          /\ tasks' = [tasks EXCEPT ![i] = AfterRefresh(tasks[i], TRUE)]
    /\ UNCHANGED <<now, mainPc, credential, issued, routes, portBound, reqs>>

\* creds.TokenSource.Token() and, when it succeeds, s.credential = creds.
\* The source returns the token it holds while that is valid (a new source
\* holds none) and otherwise fetches one from the identity provider, which
\* may fail; refreshCredentials then returns the error.
AcquireToken(i) ==
    /\ Alive
    /\ i \in 1..Len(tasks)
    /\ tasks[i].pc = "token"
    /\ LET c == tasks[i].creds
       IN  IF TokenValid(heap[c].tok, now)
           THEN /\ credential' = RefreshInstall(credential, c, FALSE)
                /\ issued' = issued
                /\ heap' = [heap EXCEPT ![c].instAt = now,
                                        ![c].instTok = heap[c].tok.id]
                /\ tasks' = [tasks EXCEPT ![i].pc = "spawn",
                                          ![i].exp = heap[c].tok.exp]
           ELSE \/ \E life \in Lifetimes :
                     LET tok == NewToken(issued, now, life)
                     IN  /\ credential' = RefreshInstall(credential, c, FALSE)
                         /\ issued' = Append(issued, Issue(tok, now))
                         /\ heap' = [heap EXCEPT ![c] =
                               [tok |-> tok, instAt |-> now, instTok |-> tok.id]]
                         /\ tasks' = [tasks EXCEPT ![i].pc = "spawn",
                                                   ![i].exp = tok.exp]
                \/ /\ credential' = RefreshInstall(credential, c, TRUE)
                   /\ UNCHANGED <<issued, heap>>
                   /\ tasks' = [tasks EXCEPT ![i] = AfterRefresh(tasks[i], TRUE)]
    /\ UNCHANGED <<now, mainPc, routes, portBound, reqs>>

\* The go statement and the return of nil.
Spawn(i) ==
    /\ Alive
    /\ i \in 1..Len(tasks)
    /\ tasks[i].pc = "spawn"
    /\ Len(tasks) + Len(Spawned(tasks[i].exp)) <= MaxTasks
    /\ tasks' = [tasks EXCEPT ![i] = AfterRefresh(tasks[i], FALSE)]
                   \o Spawned(tasks[i].exp)
    /\ UNCHANGED <<now, mainPc, credential, heap, issued, routes, portBound, reqs>>

\* -------------------------------------------------------------------- main

\* The routes setupRoutes registers: method and path pattern, a pattern
\* being a sequence of segments, literal or parameter.
Lit(s) == [k |-> "lit", v |-> s]
Param(s) == [k |-> "param", v |-> s]

RouteTable ==
    { [method |-> "POST", pattern |-> <<Lit("v1"), Lit("chat"), Lit("completions")>>,
       handler |-> "handleChatCompletions"],
      [method |-> "OPTIONS", pattern |-> <<Lit("v1"), Lit("chat"), Lit("completions")>>,
       handler |-> "handleOptions"],
      [method |-> "GET", pattern |-> <<Lit("v1"), Lit("models")>>,
       handler |-> "handleListModels"],
      [method |-> "GET", pattern |-> <<Lit("v1"), Lit("models"), Param("model")>>,
       handler |-> "handleRetrieveModel"] }

\* (mutant) the failure logged with log.Printf, main() carrying on.
InitOutcomeLogged(err) == "routes"

\* What main() does with the result of the initial refreshCredentials.
InitOutcome(err) == IF err THEN "exited" ELSE "routes"

MainAfterInit ==
    /\ mainPc = "init"
    /\ tasks[1].pc = "done"
    /\ mainPc' = InitOutcome(tasks[1].err)
    /\ UNCHANGED <<now, tasks, credential, heap, issued, routes, portBound, reqs>>

SetupRoutes ==
    /\ mainPc = "routes"
    /\ routes' = RouteTable
    /\ mainPc' = "listen"
    /\ UNCHANGED <<now, tasks, credential, heap, issued, portBound, reqs>>

\* router.Run(":8080"): the port is bound and requests are accepted, or the
\* bind fails and log.Fatalf ends the process.
Listen ==
    /\ mainPc = "listen"
    /\ \E ok \in BOOLEAN :
         /\ portBound' = ok
         /\ mainPc' = IF ok THEN "serving" ELSE "exited"
    /\ UNCHANGED <<now, tasks, credential, heap, issued, routes, reqs>>

\* ------------------------------------------------------------------ router

\* The one model of the catalog, "google/gemini-2.0-flash-001".
GeminiId == <<"google", "/", "gemini-2.0-flash-001">>

\* var AvailableModels
AvailableModels ==
    [id \in {GeminiId} |->
        [id |-> GeminiId, object |-> "model", created |-> 1706745600,
         owned_by |-> "google"]]

ChatPath == <<"/", "v1", "/", "chat", "/", "completions">>
ModelsPath == <<"/", "v1", "/", "models">>

\* The path of GET /v1/models/{id}: the identifier appended as it is.
ModelPath(id) == ModelsPath \o <<"/">> \o id

\* A path cut at its "/" atoms; the segment before the leading "/" is empty.
RECURSIVE Split(_)
Split(s) ==
    IF s = <<>> THEN << <<>> >>
    ELSE LET rest == Split(Tail(s))
         IN  IF Head(s) = "/"
             THEN << <<>> >> \o rest
             ELSE << <<Head(s)>> \o Head(rest) >> \o Tail(rest)

\* gin's match of a registered pattern: as many segments as the path has,
\* a literal equal to its segment, a :parameter taking one whole non-empty
\* segment (it never spans a "/").
SegmentMatches(p, seg) ==
    IF p.k = "lit" THEN seg = <<p.v>> ELSE seg # <<>>

Matches(pattern, path) ==
    LET segs == Tail(Split(path))
    IN  /\ Len(segs) = Len(pattern)
        /\ \A k \in 1..Len(pattern) : SegmentMatches(pattern[k], segs[k])

\* The routes of the table that serve a request.
Routed(table, method, path) ==
    {rt \in table : rt.method = method /\ Matches(rt.pattern, path)}

\* c.Param("model"): the segment the :model parameter took.
ParamModel(path) == Tail(Split(path))[3]

\* --------------------------------------------------------------- handlers

NoChat == [model |-> <<"-">>, body |-> "-"]

\* gin's answer when no route serves the request.
NotFoundResponse == [status |-> 404, body |-> "404 page not found"]

\* The entries of the catalog in the order a range over the map yields them
\* (any order).
RECURSIVE Entries(_)
Entries(ids) ==
    IF ids = {} THEN <<>>
    ELSE LET id == CHOOSE x \in ids : TRUE
         IN  <<AvailableModels[id]>> \o Entries(ids \ {id})

\* The zero ModelObject.
ZeroModel == [id |-> <<>>, object |-> "", created |-> 0, owned_by |-> ""]

\* (mutant) the slice made with the catalog's length instead of its
\* capacity, the entries appended after that many zero objects.
ListModelsPreallocated ==
    [status |-> 200,
     body |-> [object |-> "list",
               data |-> [k \in 1..Cardinality(DOMAIN AvailableModels) |-> ZeroModel]
                           \o Entries(DOMAIN AvailableModels)]]

\* handleListModels: an empty slice, every entry of the catalog appended.
ListModels ==
    [status |-> 200,
     body |-> [object |-> "list", data |-> Entries(DOMAIN AvailableModels)]]

\* handleRetrieveModel
RetrieveModel(modelID) ==
    IF modelID \in DOMAIN AvailableModels
    THEN [status |-> 200, body |-> AvailableModels[modelID]]
    ELSE [status |-> 404,
          body |-> [error |-> [type |-> "invalid_request_error",
                               code |-> "model_not_found", model |-> modelID]]]

\* handleOptions
Options == [status |-> 200, body |-> "-"]

\* (mutant) the model filled in only where the caller left it empty.
OverrideModelIfEmpty(request) ==
    IF request.model = <<>> THEN [request EXCEPT !.model = GeminiId] ELSE request

\* request.Model = "google/gemini-2.0-flash-001"
OverrideModel(request) == [request EXCEPT !.model = GeminiId]

\* The one read of Server.credential a chat completion makes, building its
\* oauth2 client: current is the cell's value at that moment.
ReadCredential(current) == current

\* (mutant) the client built again on s.credential when the call is made.
PresentedCurrent(h, captured, current) == h[current].tok

\* (mutant) Server.credential read a second time at the call, the token
\* string taken from the first read and the expiry from the second.
PresentedTorn(h, captured, current) ==
    [id |-> h[captured].tok.id, exp |-> h[current].tok.exp]

\* The token the request's transport presents, read from the credentials
\* object the handler captured; current is Server.credential at the time of
\* the call, which the handler does not read again.
Presented(h, captured, current) == h[captured].tok

\* The request as it stands once its handler is chosen.
Arrived(method, path, handler, chat) ==
    [pc |-> "routed", method |-> method, path |-> path, handler |-> handler,
     in |-> chat, wellformed |-> TRUE, up |-> NoChat, creds |-> 0,
     tok |-> NoToken, idp |-> 0, calls |-> 0, status |-> 0, body |-> "-"]

Answered(rq, resp) == [rq EXCEPT !.pc = "done", !.status = resp.status, !.body = resp.body]

Methods == {"GET", "POST", "OPTIONS"}
\* The identifiers asked for with GET /v1/models/{id}.
ModelIds == {GeminiId, <<"unknown-id">>}
Paths == {ChatPath, ModelsPath} \cup {ModelPath(id) : id \in ModelIds}
ChatModels == {<<>>, <<"gpt-4">>, GeminiId}
ChatBodies == {"hello"}

\* A request arrives on the bound port and gin dispatches it.  The catalog
\* handlers and handleOptions answer at once; a chat completion is left
\* for its handler's steps.
Arrive(r) ==
    /\ mainPc = "serving"
    /\ portBound
    /\ reqs[r].pc = "idle"
    \* (requests are numbered in their order of arrival)
    /\ \A q \in 1..(r - 1) : reqs[q].pc # "idle"
    /\ \E method \in Methods, path \in Paths :
         LET hs == Routed(routes, method, path)
         IN  IF hs = {}
             THEN reqs' = [reqs EXCEPT ![r] =
                      Answered(Arrived(method, path, "none", NoChat), NotFoundResponse)]
             ELSE \E rt \in hs :
                    CASE rt.handler = "handleListModels" ->
                           reqs' = [reqs EXCEPT ![r] =
                               Answered(Arrived(method, path, rt.handler, NoChat), ListModels)]
                      [] rt.handler = "handleRetrieveModel" ->
                           reqs' = [reqs EXCEPT ![r] =
                               Answered(Arrived(method, path, rt.handler, NoChat),
                                        RetrieveModel(ParamModel(path)))]
                      [] rt.handler = "handleOptions" ->
                           reqs' = [reqs EXCEPT ![r] =
                               Answered(Arrived(method, path, rt.handler, NoChat), Options)]
                      [] OTHER ->
                           \E m \in ChatModels, b \in ChatBodies, wf \in BOOLEAN :
                             /\ (~wf => m = <<>>)
                             /\ reqs' = [reqs EXCEPT ![r] =
                                  [Arrived(method, path, rt.handler,
                                           [model |-> m, body |-> b])
                                     EXCEPT !.wellformed = wf]]
    /\ UNCHANGED <<now, mainPc, tasks, credential, heap, issued, routes, portBound>>

\* gin.Default()'s Recovery middleware answers a panicking handler.
Panicked == [status |-> 500, body |-> "panic"]

\* handleChatCompletions up to the upstream call: BindJSON (400 on a body
\* that does not parse), the client built on s.credential.TokenSource (a nil
\* s.credential panics), the model overridden.
ChatBegin(r) ==
    /\ Alive
    /\ reqs[r].pc = "routed"
    /\ reqs' = [reqs EXCEPT ![r] =
         IF ~reqs[r].wellformed
         THEN Answered(reqs[r], [status |-> 400, body |-> "bind error"])
         ELSE IF ReadCredential(credential) = 0
         THEN Answered(reqs[r], Panicked)
         ELSE [reqs[r] EXCEPT !.pc = "call",
                              !.creds = ReadCredential(credential),
                              !.up = OverrideModel(reqs[r].in)]]
    /\ UNCHANGED <<now, mainPc, tasks, credential, heap, issued, routes, portBound>>

\* (mutant) a failed upstream call passed on as 502 Bad Gateway.
RelayedBadGateway(ok) ==
    [status |-> IF ok THEN 200 ELSE 502,
     body |-> IF ok THEN "completion" ELSE "upstream error"]

\* What the caller gets for the outcome of the upstream round trip.
Relayed(ok) ==
    [status |-> IF ok THEN 200 ELSE 500,
     body |-> IF ok THEN "completion" ELSE "upstream error"]

\* client.CreateChatCompletion: the oauth2 transport asks the captured
\* TokenSource for a token, which returns the one it holds while that is
\* valid and otherwise fetches a new one from the identity provider; then
\* the request goes upstream.  Any error is answered with 500.
ChatCall(r) ==
    /\ Alive
    /\ reqs[r].pc = "call"
    /\ LET c == reqs[r].creds
       IN  IF TokenValid(heap[c].tok, now)
           THEN /\ UNCHANGED <<heap, issued>>
                /\ \E ok \in BOOLEAN :
                     reqs' = [reqs EXCEPT ![r] =
                        Answered([reqs[r] EXCEPT !.tok = Presented(heap, c, credential),
                                                 !.calls = 1],
                                 Relayed(ok))]
           ELSE \/ \E life \in Lifetimes, ok \in BOOLEAN :
                     LET tok == NewToken(issued, now, life)
                         h2  == [heap EXCEPT ![c].tok = tok]
                     IN  /\ issued' = Append(issued, Issue(tok, now))
                         /\ heap' = h2
                         /\ reqs' = [reqs EXCEPT ![r] =
                              Answered([reqs[r] EXCEPT !.tok = Presented(h2, c, credential),
                                                       !.idp = 1, !.calls = 1],
                                       Relayed(ok))]
                \/ /\ UNCHANGED <<heap, issued>>
                   /\ reqs' = [reqs EXCEPT ![r] =
                        Answered([reqs[r] EXCEPT !.idp = 1],
                                 [status |-> 500, body |-> "token error"])]
    /\ UNCHANGED <<now, mainPc, tasks, credential, routes, portBound>>

\* ------------------------------------------------------------------- clock

Tick ==
    /\ Alive
    /\ now < MaxTime
    /\ now' = now + 1
    /\ UNCHANGED <<mainPc, tasks, credential, heap, issued, routes, portBound, reqs>>

\* ------------------------------------------------------------ specification

NoReq == [Arrived("-", <<>>, "none", NoChat) EXCEPT !.pc = "idle"]

Init ==
    /\ now = 0
    /\ mainPc = "init"
    /\ tasks = <<InitialTask>>
    /\ credential = 0
    /\ heap = <<>>
    /\ issued = <<>>
    /\ routes = {}
    /\ portBound = FALSE
    /\ reqs = [r \in 1..MaxReqs |-> NoReq]

Next ==
    \/ Tick
    \/ \E i \in 1..MaxTasks : TimerFire(i)
    \/ \E i \in 1..MaxTasks : FindCredentials(i)
    \/ \E i \in 1..MaxTasks : AcquireToken(i)
    \/ \E i \in 1..MaxTasks : Spawn(i)
    \/ MainAfterInit
    \/ SetupRoutes
    \/ Listen
    \/ \E r \in 1..MaxReqs : Arrive(r)
    \/ \E r \in 1..MaxReqs : ChatBegin(r)
    \/ \E r \in 1..MaxReqs : ChatCall(r)

Spec == Init /\ [][Next]_vars

\* The refresh chain under fair scheduling: the clock advances, a goroutine
\* whose sleep is over runs, the calls refreshCredentials makes return, and
\* the go statement is executed.
RefreshFairness ==
    /\ WF_vars(Tick)
    /\ \A i \in 1..MaxTasks :
          /\ WF_vars(TimerFire(i))
          /\ WF_vars(FindCredentials(i))
          /\ WF_vars(AcquireToken(i))
          /\ WF_vars(Spawn(i))

FairSpec == Spec /\ RefreshFairness

\* ==================================================================== claims

ArmedTimers == {i \in 1..Len(tasks) : tasks[i].pc = "sleep"}

\* The initial refreshCredentials has returned nil.
Initialized == tasks[1].pc = "done" /\ ~tasks[1].err

\* Background invocation i of refreshCredentials has failed.
FailedInBackground(i) ==
    i \in 1..Len(tasks) /\ tasks[i].bg /\ tasks[i].pc = "done" /\ tasks[i].err

\* In this step invocation i of refreshCredentials returns an error.
FailsNow(i) ==
    /\ i \in 1..Len(tasks)
    /\ tasks[i].pc \in {"find", "token"}
    /\ tasks'[i].pc = "done"
    /\ tasks'[i].err

\* In this step invocation i of refreshCredentials returns nil.
SucceedsNow(i) ==
    /\ i \in 1..Len(tasks)
    /\ tasks[i].pc = "spawn"
    /\ tasks'[i].pc # "spawn"

\* C1: every failed background refresh is followed by a later refresh
\* attempt.  An attempt is made only by an invocation of refreshCredentials,
\* and the failed one has returned: the retry has to be a later invocation,
\* scheduled or running, from the moment of the failure on.
C1_FailedRefreshIsRetried ==
    \A i \in 1..Len(tasks) :
        FailedInBackground(i) => i < Len(tasks)

\* C2: a refresh attempt that fails, at credential discovery or at token
\* acquisition, leaves Server.credential, and the object it points to, as
\* they were when the attempt began.
C2_FailedRefreshKeepsCredential ==
    [][\A i \in 1..MaxTasks :
         FailsNow(i) =>
            /\ credential' = tasks[i].seen
            /\ credential' = credential
            /\ credential # 0 => heap'[credential] = heap[credential]]_vars

C2_Witness ==
    \E i \in 1..Len(tasks) :
        /\ FailedInBackground(i)
        /\ tasks[i].creds # 0
        /\ credential # 0
        /\ credential = tasks[i].seen

\* C3: wherever a chat-completion handler can run, Server.credential is not
\* nil: no request is accepted before the initial refresh has succeeded, and
\* once it has, the cell never goes back to nil, whatever later refreshes do.
C3_CredentialPresent ==
    /\ Initialized => credential # 0
    /\ \A r \in 1..MaxReqs :
          reqs[r].pc # "idle" => Initialized /\ credential # 0
    /\ \A r \in 1..MaxReqs :
          reqs[r].handler = "handleChatCompletions" /\ reqs[r].pc = "done"
             => reqs[r].body # Panicked.body

C3_Witness ==
    /\ \E i \in 1..Len(tasks) : FailedInBackground(i)
    /\ \E r \in 1..MaxReqs : reqs[r].pc = "call" /\ reqs[r].creds = credential

\* C4: at most one refresh timer is armed at any moment; a successful
\* refresh arms exactly one new timer, and the timer that triggered it is
\* not armed any more.
C4_OneTimer ==
    /\ Cardinality(ArmedTimers) <= 1
    /\ [][/\ Cardinality(ArmedTimers') <= 1
          /\ \A i \in 1..MaxTasks :
               SucceedsNow(i) =>
                  /\ Len(tasks') = Len(tasks) + 1
                  /\ ArmedTimers' = {Len(tasks')}
                  /\ i \notin ArmedTimers']_vars

C4_Witness ==
    /\ Len(tasks) = 3
    /\ tasks[2].pc = "done" /\ ~tasks[2].err
    /\ ArmedTimers = {3}

\* C5: the port is bound, and the routes registered, only after the initial
\* refreshCredentials has returned nil; if it returns an error the process
\* exits with no route registered, the port never bound and no request
\* accepted.
C5_ServeOnlyAfterInit ==
    /\ (portBound \/ routes # {} \/ mainPc \in {"routes", "listen", "serving"})
          => Initialized
    /\ portBound => routes = RouteTable
    /\ (tasks[1].pc = "done" /\ tasks[1].err) =>
          /\ mainPc \in {"init", "exited"}
          /\ ~portBound
          /\ routes = {}
          /\ \A r \in 1..MaxReqs : reqs[r].pc = "idle"

C5_Witness ==
    /\ tasks[1].pc = "done" /\ tasks[1].err
    /\ mainPc = "exited"
    /\ ~portBound

\* A chat completion whose handler has read Server.credential.
HasRead(r) == reqs[r].creds # 0

\* The remaining lifetime, when credentials object c was installed, of the
\* token it then held.
LifeAtInstall(c) == issued[heap[c].instTok].exp - heap[c].instAt

\* The last invocation of refreshCredentials that has installed credentials.
LastInstaller ==
    CHOOSE i \in 1..Len(tasks) :
        /\ tasks[i].exp # 0
        /\ \A j \in (i + 1)..Len(tasks) : tasks[j].exp = 0

\* C6: the token a handler presents, read while refreshes install new
\* credentials, is whole: its string and its expiry are those of one
\* issuance, and it comes from a credentials object that was installed.
C6_NoTornToken ==
    \A r \in 1..MaxReqs :
        reqs[r].calls = 1 =>
            /\ reqs[r].tok.id \in 1..Len(issued)
            /\ issued[reqs[r].tok.id].exp = reqs[r].tok.exp
            /\ heap[reqs[r].creds].instAt >= 0

C6_Witness ==
    \E r \in 1..MaxReqs :
        /\ reqs[r].calls = 1
        /\ reqs[r].creds # credential
        /\ reqs[r].tok.exp # heap[credential].tok.exp

\* C7 (as claimed): the credential a handler reads is one whose token's
\* expiry was, when it was installed, more than the safety margin ahead.
C7_FreshAtInstall ==
    \A r \in 1..MaxReqs :
        HasRead(r) => LifeAtInstall(reqs[r].creds) > SafetyMargin

\* C7 (amended): after initialization Server.credential is the object the
\* latest successful refresh installed (the previous one while later
\* attempts fail), and the token of any credential a handler reads was
\* issued at the moment of installation: its expiry was then a whole granted
\* lifetime ahead, more than the safety margin only if the identity provider
\* granted that much.
C7_WholeLifetimeAtInstall ==
    /\ Initialized => credential = tasks[LastInstaller].creds
    /\ \A r \in 1..MaxReqs :
          HasRead(r) =>
             LET c == reqs[r].creds
             IN  /\ heap[c].instAt >= 0
                 /\ heap[c].instTok \in 1..Len(issued)
                 /\ issued[heap[c].instTok].at = heap[c].instAt
                 /\ LifeAtInstall(c) \in Lifetimes

C7_Witness ==
    \E r \in 1..MaxReqs :
        /\ HasRead(r)
        /\ reqs[r].creds = credential
        /\ LifeAtInstall(reqs[r].creds) <= SafetyMargin
        /\ \E i \in 1..Len(tasks) : FailedInBackground(i)

C10_CatalogEntryRetrievable ==
    \A r \in 1..MaxReqs :
        (/\ reqs[r].pc = "done"
         /\ reqs[r].method = "GET"
         /\ reqs[r].path = ModelPath(GeminiId)) =>
            /\ reqs[r].handler = "handleRetrieveModel"
            /\ reqs[r].status = 200
            /\ reqs[r].body = AvailableModels[GeminiId]

\* C11: GET /v1/models/{id} is answered by the retrieve-model operation, 404
\* with an error object of code model_not_found for every identifier that is
\* not a key of the catalog, 200 with the descriptor if and only if it is.
C11_RetrieveByCatalog ==
    \A r \in 1..MaxReqs : \A id \in ModelIds :
        (/\ reqs[r].pc = "done"
         /\ reqs[r].method = "GET"
         /\ reqs[r].path = ModelPath(id)) =>
            /\ reqs[r].handler = "handleRetrieveModel"
            /\ (reqs[r].status = 200) <=> (id \in DOMAIN AvailableModels)
            /\ id \in DOMAIN AvailableModels =>
                  reqs[r].body = AvailableModels[id]
            /\ id \notin DOMAIN AvailableModels =>
                  /\ reqs[r].status = 404
                  /\ reqs[r].body.error.code = "model_not_found"

\* C12: in every reachable state GET /v1/models is answered 200 with a list
\* of exactly one entry, whose id is google/gemini-2.0-flash-001.
C12_OneModelListed ==
    \A r \in 1..MaxReqs :
        (/\ reqs[r].pc = "done"
         /\ reqs[r].method = "GET"
         /\ reqs[r].path = ModelsPath) =>
            /\ reqs[r].handler = "handleListModels"
            /\ reqs[r].status = 200
            /\ reqs[r].body.object = "list"
            /\ Len(reqs[r].body.data) = 1
            /\ reqs[r].body.data[1].id = GeminiId

C12_Witness ==
    /\ \E r \in 1..MaxReqs :
          /\ reqs[r].pc = "done"
          /\ reqs[r].method = "GET"
          /\ reqs[r].path = ModelsPath
          /\ reqs[r].status = 200
    /\ Len(tasks) >= 2
    /\ tasks[2].pc = "done"

\* The chat-completion requests that have been answered.
ChatAnswered(r) ==
    /\ reqs[r].pc = "done"
    /\ reqs[r].handler = "handleChatCompletions"

Succeeded(i) ==
    /\ i \in 1..Len(tasks)
    /\ tasks[i].pc \in {"spawn", "done"}
    /\ ~tasks[i].err

\* The clock reading at which invocation i installed its credential.
InstalledAt(i) == heap[tasks[i].creds].instAt

\* Invocation i succeeded with a token whose deadline, expiry minus the
\* safety margin, had already passed.
PastDeadline(i) ==
    /\ Succeeded(i)
    /\ tasks[i].exp - SafetyMargin <= InstalledAt(i)

\* C14: a successful refresh with a token whose deadline is already past is
\* followed by a single immediate retry, not by a tight loop: when that
\* retry again yields such a token, no further refresh is made with zero
\* time elapsed.
C14_SingleImmediateRetry ==
    \A i \in 1..(MaxTasks - 2) :
        ~(/\ PastDeadline(i)
          /\ PastDeadline(i + 1)
          /\ Succeeded(i + 2)
          /\ InstalledAt(i + 1) = InstalledAt(i)
          /\ InstalledAt(i + 2) = InstalledAt(i))

\* Some invocation of refreshCredentials has returned an error.
SomeFailure == \E j \in 1..Len(tasks) : tasks[j].err

\* The credential invocation i installed is no longer the installed one.
Superseded(i) == i \in 1..Len(tasks) /\ credential # tasks[i].creds

\* A successful invocation arms one timer for the expiry of its token minus
\* the safety margin.
ArmsTimer ==
    \A i \in 1..Len(tasks) :
        (tasks[i].pc = "spawn" /\ tasks'[i].pc = "done") =>
            /\ ~tasks'[i].err
            /\ Len(tasks') = Len(tasks) + 1
            /\ tasks'[Len(tasks')].pc = "sleep"
            /\ tasks'[Len(tasks')].deadline =
                  issued[heap[tasks[i].creds].instTok].exp - SafetyMargin

\* A timer that stops sleeping has reached its deadline and starts a refresh
\* attempt.
FiresIntoRefresh ==
    \A i \in 1..Len(tasks) :
        (tasks[i].pc = "sleep" /\ tasks'[i].pc # "sleep") =>
            /\ now >= tasks[i].deadline
            /\ tasks'[i].pc = "find"

\* C15: every successful refresh, the initial one included, arms a timer for
\* expiry minus 5 minutes, and a timer that fires starts a refresh attempt;
\* under fair scheduling, as long as no refresh fails and the process lives,
\* every installed credential is superseded by the next refresh (within the
\* model's bounds: the deadline is a clock reading the model reaches and the
\* invocation is not the last one the model allows).
C15_RefreshKeepsGoing ==
    /\ [][ArmsTimer /\ FiresIntoRefresh]_vars
    /\ \A i \in 1..(MaxTasks - 1) :
          (Succeeded(i) /\ tasks[i].exp - SafetyMargin <= MaxTime)
              ~> (Superseded(i) \/ SomeFailure \/ ~Alive)

C15_Witness ==
    /\ Succeeded(1)
    /\ Succeeded(2)
    /\ credential = tasks[2].creds
    /\ tasks[2].deadline > InstalledAt(1)
    /\ ~SomeFailure

\* The invocations of refreshCredentials that are executing.
InProgress == {i \in 1..Len(tasks) : tasks[i].pc \in {"find", "token", "spawn"}}

\* A step that writes Server.credential is the assignment in an invocation
\* of refreshCredentials, made by a background goroutine or, before main()
\* has gone on, by main's initial call; it is no step of a request handler.
WrittenByRefreshOnly ==
    credential' # credential =>
        /\ reqs' = reqs
        /\ \E i \in 1..Len(tasks) :
              /\ tasks[i].pc = "token"
              /\ tasks'[i].pc = "spawn"
              /\ tasks'[i].creds = credential'
              /\ tasks[i].bg \/ (i = 1 /\ mainPc = "init")

\* C16: at most one execution of refreshCredentials is in progress at any
\* moment; Server.credential is written only by the refresh (after
\* initialization, the background one), and every step of a request handler
\* (chat, list, retrieve, options) leaves it unchanged.
C16_SingleWriter ==
    /\ [](Cardinality(InProgress) <= 1)
    /\ [][WrittenByRefreshOnly]_vars
    /\ [][reqs' # reqs => credential' = credential]_vars

C16_Witness ==
    /\ \E r \in 1..MaxReqs :
          /\ ChatAnswered(r)
          /\ reqs[r].calls = 1
          /\ reqs[r].creds = credential
    /\ Succeeded(2)
    /\ InProgress = {2}

\* C17: whenever a refresh timer is armed, its deadline is the expiry, minus
\* the safety margin, of the token obtained from the credential that is
\* installed in Server.credential, the one the invocation that armed the
\* timer installed; no armed deadline belongs to another credential's token.
C17_DeadlineOfInstalled ==
    \A i \in ArmedTimers :
        /\ i > 1
        /\ credential # 0
        /\ tasks[i - 1].creds = credential
        /\ tasks[i].deadline =
              issued[heap[credential].instTok].exp - SafetyMargin

C17_Witness ==
    /\ ArmedTimers = {3}
    /\ credential = tasks[2].creds
    /\ heap[credential].tok.id # heap[credential].instTok

\* C18: a chat-completion request reads Server.credential exactly once,
\* before its upstream call: it takes the credential installed last when it
\* starts, keeps it whatever is installed while it is in flight, and presents
\* upstream the token of that credential.
C18_CredentialReadOnce ==
    [][\A r \in 1..MaxReqs :
          /\ reqs'[r].creds # reqs[r].creds =>
                /\ reqs[r].pc = "routed"
                /\ reqs'[r].pc = "call"
                /\ reqs[r].calls = 0
                /\ reqs'[r].creds = credential
                /\ reqs'[r].creds = tasks[LastInstaller].creds
          /\ (reqs[r].pc = "call" /\ reqs'[r].calls = 1) =>
                /\ reqs'[r].creds = reqs[r].creds
                /\ reqs'[r].tok = heap'[reqs[r].creds].tok]_vars

C18_Witness ==
    \E r \in 1..MaxReqs :
        /\ ChatAnswered(r)
        /\ reqs[r].calls = 1
        /\ reqs[r].idp = 0
        /\ reqs[r].creds = tasks[1].creds
        /\ Succeeded(2)
        /\ credential = tasks[2].creds
        /\ reqs[r].tok = heap[tasks[1].creds].tok
        /\ reqs[r].tok # heap[credential].tok

====
